---------------------------- MODULE Spec2Model ----------------------------
(***************************************************************************)
(* whimsical-exporter: the recursive export engine of src/src/index.ts     *)
(* (current engine, lines 1-433).  One process walks a remote folder tree  *)
(* through a single browser page and mirrors it onto the local file store. *)
(* The remote service, the browser page and the file store are the         *)
(* environment: every remote interaction and every file-store call may     *)
(* succeed or fail, chosen nondeterministically.                           *)
(***************************************************************************)
EXTENDS Integers, Sequences, FiniteSets, Bags, TLC

(***************************************************************************)
(* Bounds of the model.                                                    *)
(***************************************************************************)
\* number of successive runs of the command against the same local store
MaxRuns == 2
\* children the remote service delivers per lazy-loading batch
PageSize == 2

(***************************************************************************)
(* Program constants.                                                      *)
(***************************************************************************)
DOWNLOAD_PATH == "downloads"
WHIMSICAL_BASE_URL == "https://whimsical.com/"
PNG == "png"
PDF == "pdf"
SVG == "svg"
FileType == {PDF, PNG, SVG}

(***************************************************************************)
(* Strings are sequences of tokens: a URL is <<base, path, suffix...>>, a  *)
(* local path is <<"cwd", "/", "downloads", "/", name, ...>>.              *)
(***************************************************************************)
FirstIndex(s, t) ==
    IF \E i \in 1..Len(s) : s[i] = t
    THEN CHOOSE i \in 1..Len(s) : s[i] = t /\ \A j \in 1..(i - 1) : s[j] # t
    ELSE 0

\* String.prototype.split with a separator token
RECURSIVE Split(_, _)
Split(s, t) ==
    LET idx == FirstIndex(s, t)
    IN  IF idx = 0
        THEN <<s>>
        ELSE <<SubSeq(s, 1, idx - 1)>> \o Split(SubSeq(s, idx + 1, Len(s)), t)

\* const [, path] = url.split(WHIMSICAL_BASE_URL); return path
getItemName(url) ==
    LET parts == Split(url, WHIMSICAL_BASE_URL)
    IN  IF Len(parts) >= 2 THEN parts[2] ELSE <<"undefined">>

\* `${a}/${b}`
JoinPath(a, b) == a \o <<"/">> \o b

\* `${itemName}.${fileType}`
FileName(itemName, fileType) == itemName \o <<".", fileType>>

\* the vector view is looked for at the item's own URL
SvgUrl_Same(itemUrl) == itemUrl

\* `${itemUrl}/svg`
SvgUrl(itemUrl) == itemUrl \o <<"/svg">>

(***************************************************************************)
(* The remote service: a fixed folder tree.  "r" is the starting folder;   *)
(* it holds sub-folder "a", the empty document "e" and the board "x";      *)
(* "a" holds the board "z".  A board has a canvas and a vector sub-view    *)
(* (<url>/svg); "e" has neither, like a folder its /svg is "Not Found".    *)
(***************************************************************************)
Items == {"r", "a", "e", "x", "z"}

ItemUrl(n) == <<WHIMSICAL_BASE_URL, n>>

RemoteKind(n) ==
    CASE n \in {"r", "a"} -> "folder"
      [] n \in {"x", "z"} -> "board"
      [] OTHER            -> "empty"

RemoteChildren(n) ==
    CASE n = "r" -> <<"a", "e", "x">>
      [] n = "a" -> <<"z">>
      [] OTHER   -> << >>

StartUrl == ItemUrl("r")

\* what the browser renders for a URL once navigation has settled
Render(url) ==
    IF \E n \in Items : url = ItemUrl(n)
    THEN LET n == CHOOSE m \in Items : url = ItemUrl(m)
         IN  CASE RemoteKind(n) = "folder" -> "folder"
               [] RemoteKind(n) = "board"  -> "board"
               [] OTHER                    -> "emptyboard"
    ELSE IF \E n \in Items : url = SvgUrl(ItemUrl(n))
    THEN LET n == CHOOSE m \in Items : url = SvgUrl(ItemUrl(m))
         IN  IF RemoteKind(n) = "board" THEN "svg" ELSE "notfound"
    ELSE "notfound"

\* children of the folder a URL names (empty for anything else)
ChildUrls(url) ==
    IF \E n \in Items : url = ItemUrl(n)
    THEN LET n == CHOOSE m \in Items : url = ItemUrl(m)
             c == RemoteChildren(n)
         IN  [j \in 1..Len(c) |-> ItemUrl(c[j])]
    ELSE << >>

Min(a, b) == IF a < b THEN a ELSE b

(***************************************************************************)
(* The browser page: current URL, the kind of content it shows, how many   *)
(* folder children are in the DOM, whether an items.sync response is in    *)
(* flight, whether the share/export menu is open, and the last click tried *)
(* on a control of the page: which control, how the control was found      *)
(* (enabled, disabled by pointer-events: none, or missing) and whether     *)
(* page.click was issued.                                                  *)
(***************************************************************************)
\* no click has been tried on the content the page shows
NoClick == [control |-> "none", state |-> "none", clicked |-> FALSE]

BlankPage ==
    [url |-> <<"about:blank">>, view |-> "blank", loaded |-> 0,
     sync |-> FALSE, menu |-> FALSE, lastClick |-> NoClick]

\* page.goto(url, { waitUntil: 'networkidle0' }) that resolved
Loaded(url) ==
    [url |-> url, view |-> Render(url),
     loaded |-> IF Render(url) = "folder" THEN Min(PageSize, Len(ChildUrls(url))) ELSE 0,
     sync |-> FALSE, menu |-> FALSE, lastClick |-> NoClick]

\* page.goto that rejected (timeout, network error)
ErrorPage ==
    [url |-> <<"chrome-error:">>, view |-> "error", loaded |-> 0,
     sync |-> FALSE, menu |-> FALSE, lastClick |-> NoClick]

\* goToUrlIfNeeded: the outcomes the environment can produce
goToUrlIfNeeded(pg, url) ==
    IF pg.url # url
    THEN {[ok |-> TRUE, page |-> Loaded(url)], [ok |-> FALSE, page |-> ErrorPage]}
    ELSE {[ok |-> TRUE, page |-> pg]}

\* page.$('[data-wc="folder-content"]')
HasFolderContent(pg) == pg.view = "folder"

\* a probe that finds a canvas on every page
HasBoardCanvas_Always(pg) == TRUE

\* page.$('[data-wc="board-canvas"]')
HasBoardCanvas(pg) == pg.view = "board"

\* page.$$eval('[data-wc="folder-content"] a.no-user-select', ...)
getUrls(pg) ==
    IF pg.view = "folder" THEN SubSeq(ChildUrls(pg.url), 1, pg.loaded) ELSE << >>

(***************************************************************************)
(* The local file store: the set of directories and the set of files.      *)
(***************************************************************************)
RootPath == <<"cwd">>
InitDownloadPath == JoinPath(RootPath, <<DOWNLOAD_PATH>>)

\* mkdir(path, { recursive: true }): the path and every ancestor
MkdirRecursive(ds, path) ==
    ds \cup {SubSeq(path, 1, j) : j \in {m \in 1..Len(path) :
                                           m = Len(path) \/ path[m + 1] = "/"}}

IsEntryOf(e, path) ==
    /\ Len(e) > Len(path) + 1
    /\ SubSeq(e, 1, Len(path) + 1) = path \o <<"/">>
    /\ \A j \in (Len(path) + 2)..Len(e) : e[j] # "/"

\* a listing that leaves the plain files out
ReadDir_DirsOnly(ds, fs, path) ==
    {SubSeq(e, Len(path) + 2, Len(e)) : e \in {d \in ds : IsEntryOf(d, path)}}

\* readdir(path): the names of the entries directly under path
ReadDir(ds, fs, path) ==
    {SubSeq(e, Len(path) + 2, Len(e)) : e \in {d \in ds \cup fs : IsEntryOf(d, path)}}

(***************************************************************************)
(* State of one process (one run of the command) and of the file store     *)
(* that outlives it.                                                       *)
(***************************************************************************)
VARIABLES
    pc,               \* where the process is
    stack,            \* activations of navigateToFolder/downloadUrls, innermost last
    page,             \* the browser page
    dirs,             \* local directories
    files,            \* local files
    fileTypes,        \* the formats requested for this run, in prompt order
    itemsDownloaded,  \* the module-level counter
    run,              \* number of the current run
    h                 \* what happened during this run (observation only)

vars == <<pc, stack, page, dirs, files, fileTypes, itemsDownloaded, run, h>>

\* the checkbox prompt answers with the checked choices in the order of its
\* choices list: PNG, PDF, SVG; at least one must be checked
FileTypeChoices ==
    {<<PNG>>, <<PDF>>, <<SVG>>, <<PNG, PDF>>, <<PNG, SVG>>, <<PDF, SVG>>,
     <<PNG, PDF, SVG>>}

SeqToSet(s) == {s[j] : j \in 1..Len(s)}

Top == stack[Len(stack)]
SetTop(f) == [stack EXCEPT ![Len(stack)] = f]
CurrentItemUrl == Top.itemUrls[Top.i]

\* every folder's directory is put directly under the download root
NewFrame_Flat(folderUrl, downloadPath) ==
    [folderUrl |-> folderUrl,
     downloadPath |-> downloadPath,
     folderPath |-> JoinPath(InitDownloadPath, getItemName(folderUrl)),
     itemUrls |-> << >>,
     dirFiles |-> {},
     i |-> 0,
     pending |-> << >>,
     k |-> 0,
     cycles |-> 0,
     seen |-> 0]

\* navigateToFolder's locals on entry (lines 137-138)
NewFrame(folderUrl, downloadPath) ==
    [folderUrl |-> folderUrl,
     downloadPath |-> downloadPath,
     folderPath |-> JoinPath(downloadPath, getItemName(folderUrl)),
     itemUrls |-> << >>,
     dirFiles |-> {},
     i |-> 0,
     pending |-> << >>,
     k |-> 0,
     cycles |-> 0,
     seen |-> 0]

\* the for-loop of downloadUrls moves to the next itemUrl
NextItem(f) == [f EXCEPT !.i = @ + 1, !.pending = << >>, !.k = 0]

FreshHistory(prev, types) ==
    [preFiles |-> files,     \* files present when the run started
     preDirs |-> dirs,
     exported |-> {},        \* [url, fileType, path] handed to getItemContent
     writes |-> EmptyBag,    \* file paths written, with multiplicity
     remote |-> {},          \* [op, url] remote interactions
     counted |-> EmptyBag,   \* item URLs the counter was incremented for
     produced |-> {},        \* item URLs a file was written for
     caught |-> {},          \* item URLs whose export threw into the catch
     failed |-> FALSE,       \* some remote interaction or file-store call failed
     cause |-> "none",       \* what made the run reject, if it did
     prev |-> prev,          \* how the previous run ended
     prevClean |-> FALSE,    \* ... and whether it ended with no failure at all
     prevTypes |-> types]    \* ... and the formats it was asked for

Remote(op, url) == [h EXCEPT !.remote = @ \cup {[op |-> op, url |-> url]}]

Init ==
    /\ pc = "login"
    /\ stack = << >>
    /\ page = BlankPage
    /\ dirs = {RootPath}
    /\ files = {}
    /\ fileTypes \in FileTypeChoices
    /\ itemsDownloaded = 0
    /\ run = 1
    /\ h = [preFiles |-> {}, preDirs |-> {RootPath}, exported |-> {},
            writes |-> EmptyBag, remote |-> {}, counted |-> EmptyBag,
            produced |-> {}, caught |-> {},
            failed |-> FALSE, cause |-> "none", prev |-> "none",
            prevClean |-> FALSE, prevTypes |-> << >>]

(***************************************************************************)
(* A rejection that nothing catches reaches init() and ends the process.   *)
(***************************************************************************)
Reject(cause, pg) ==
    /\ pc' = "aborted"
    /\ page' = pg
    /\ h' = [h EXCEPT !.failed = TRUE, !.cause = cause]
    /\ UNCHANGED <<stack, dirs, files, fileTypes, itemsDownloaded, run>>

\* the failure of waitForNavigation is swallowed and init goes on
LogIn_Swallowed ==
    /\ pc = "login"
    /\ pc' = "nav"
    /\ stack' = <<NewFrame(StartUrl, InitDownloadPath)>>
    /\ \/ /\ page' = Loaded(<<WHIMSICAL_BASE_URL>>)
          /\ UNCHANGED h
       \/ /\ page' = page
          /\ h' = [h EXCEPT !.failed = TRUE, !.cause = "login"]
    /\ UNCHANGED <<dirs, files, fileTypes, itemsDownloaded, run>>

\* logIn (lines 111-129)
LogIn ==
    /\ pc = "login"
    /\ \/ /\ pc' = "nav"
          /\ page' = Loaded(<<WHIMSICAL_BASE_URL>>)
          /\ stack' = <<NewFrame(StartUrl, InitDownloadPath)>>
          /\ UNCHANGED <<dirs, files, fileTypes, itemsDownloaded, run, h>>
       \/ /\ pc' = "authfail"
          /\ h' = [h EXCEPT !.failed = TRUE, !.cause = "login"]
          /\ UNCHANGED <<stack, page, dirs, files, fileTypes, itemsDownloaded, run>>

\* navigateToFolder: goToUrlIfNeeded(page, folderUrl) (lines 140-141)
NavigateToFolder ==
    /\ pc = "nav"
    /\ \E r \in goToUrlIfNeeded(page, Top.folderUrl) :
          IF r.ok
          THEN /\ pc' = "scroll"
               /\ page' = r.page
               /\ h' = Remote("list", Top.folderUrl)
               /\ UNCHANGED <<stack, dirs, files, fileTypes, itemsDownloaded, run>>
          ELSE Reject("folderNavigation", r.page)

\* loadAllItems: scroll the container to its bottom (lines 158-162)
LoadScroll ==
    /\ pc = "scroll"
    /\ \E found \in {b \in BOOLEAN : b => HasFolderContent(page)} :
          IF found
          THEN /\ pc' = "await"
               /\ page' = [page EXCEPT
                              !.sync = page.loaded < Len(ChildUrls(page.url))]
               /\ stack' = SetTop([Top EXCEPT !.cycles = @ + 1])
               /\ UNCHANGED <<dirs, files, fileTypes, itemsDownloaded, run, h>>
          ELSE Reject("scroll", page)

\* loadAllItems: wait up to 1000 ms for the items.sync response (lines 164-173)
LoadAwait ==
    /\ pc = "await"
    /\ \/ /\ page.sync       \* the response arrives while the wait is on
          /\ pc' = "scroll"
          /\ page' = [page EXCEPT
                         !.loaded = Min(@ + PageSize, Len(ChildUrls(page.url))),
                         !.sync = FALSE]
          /\ stack' = SetTop([Top EXCEPT !.seen = @ + 1])
          /\ UNCHANGED h
       \/ /\ page.sync       \* the response is later than the timeout
          /\ pc' = "list"
          /\ page' = [page EXCEPT !.sync = FALSE]
          /\ h' = [h EXCEPT !.failed = TRUE]
          /\ UNCHANGED stack
       \/ /\ page.sync       \* the response arrived while $eval was awaited,
                              \* before waitForResponse was called: the batch
                              \* is rendered, the wait sees nothing, times out
          /\ pc' = "list"
          /\ page' = [page EXCEPT
                         !.loaded = Min(@ + PageSize, Len(ChildUrls(page.url))),
                         !.sync = FALSE]
          /\ h' = [h EXCEPT !.failed = @ \/ page'.loaded < Len(ChildUrls(page.url))]
          /\ UNCHANGED stack
       \/ /\ ~page.sync      \* nothing more to load: the wait times out
          /\ pc' = "list"
          /\ UNCHANGED <<page, h, stack>>
    /\ UNCHANGED <<dirs, files, fileTypes, itemsDownloaded, run>>

\* createDirIfNotExists: mkdir errors are swallowed (lines 193-199)
createDirIfNotExists(ds, path, ok) ==
    IF ok THEN MkdirRecursive(ds, path) ELSE ds

\* navigateToFolder: getUrls and createDirIfNotExists (lines 146-149);
\* loadAllItems has returned and its counts are gone
ListAndCreateDir ==
    /\ pc = "list"
    /\ \E ok \in BOOLEAN :
          /\ dirs' = createDirIfNotExists(dirs, Top.folderPath, ok)
          /\ h' = [h EXCEPT !.failed = @ \/ ~ok]
    /\ stack' = SetTop([Top EXCEPT !.itemUrls = getUrls(page),
                                   !.cycles = 0, !.seen = 0])
    /\ pc' = "readdir"
    /\ UNCHANGED <<page, files, fileTypes, itemsDownloaded, run>>

\* downloadUrls: const dirFiles = await readdir(downloadPath) (line 207)
ReadDirFiles ==
    /\ pc = "readdir"
    /\ \E ok \in {b \in BOOLEAN : b => Top.folderPath \in dirs} :
          IF ok
          THEN /\ stack' = SetTop([Top EXCEPT
                                      !.dirFiles = ReadDir(dirs, files, Top.folderPath),
                                      !.i = 1])
               /\ pc' = "item"
               /\ UNCHANGED <<page, dirs, files, fileTypes, itemsDownloaded, run, h>>
          ELSE Reject("readdir", page)

(***************************************************************************)
(* downloadUrls: the loop over the listed children (lines 209-253).        *)
(***************************************************************************)
\* `return navigateToFolder(...)`: the loop is left after the first sub-folder
AfterRecursion_Return(f) == [f EXCEPT !.i = Len(f.itemUrls) + 1]

\* line 218: after the recursive navigateToFolder resolves, `continue`
AfterRecursion(f) == NextItem(f)

\* the for-loop is exhausted: downloadUrls and navigateToFolder resolve;
\* back in init the browser is closed (lines 45-50)
ReturnFromFolder ==
    /\ pc = "item"
    /\ Top.i > Len(Top.itemUrls)
    /\ IF Len(stack) = 1
       THEN /\ pc' = "done"
            /\ stack' = << >>
            /\ page' = BlankPage
       ELSE /\ pc' = "item"
            /\ stack' = [SubSeq(stack, 1, Len(stack) - 1)
                            EXCEPT ![Len(stack) - 1] = AfterRecursion(@)]
            /\ page' = page
    /\ UNCHANGED <<dirs, files, fileTypes, itemsDownloaded, run, h>>

\* line 214: dirFiles.includes(itemName)
IsKnownLocally(dirFiles, itemName) == itemName \in dirFiles

\* an entry that is already there is taken as done and skipped
SkipKnownFolder ==
    /\ pc = "item"
    /\ Top.i <= Len(Top.itemUrls)
    /\ IsKnownLocally(Top.dirFiles, getItemName(CurrentItemUrl))
    /\ stack' = SetTop(NextItem(Top))
    /\ pc' = "item"
    /\ UNCHANGED <<page, dirs, files, fileTypes, itemsDownloaded, run, h>>

\* lines 213-217, first operand true: recurse without probing the item
RecurseKnownFolder ==
    /\ pc = "item"
    /\ Top.i <= Len(Top.itemUrls)
    /\ IsKnownLocally(Top.dirFiles, getItemName(CurrentItemUrl))
    /\ stack' = Append(stack, NewFrame(CurrentItemUrl, Top.folderPath))
    /\ pc' = "nav"
    /\ UNCHANGED <<page, dirs, files, fileTypes, itemsDownloaded, run, h>>

\* an item is taken for a folder when its page shows no canvas
CheckItemIsFolder_NoCanvasIsFolder ==
    /\ pc = "item"
    /\ Top.i <= Len(Top.itemUrls)
    /\ ~IsKnownLocally(Top.dirFiles, getItemName(CurrentItemUrl))
    /\ \E r \in goToUrlIfNeeded(page, CurrentItemUrl) :
          IF r.ok
          THEN /\ page' = r.page
               /\ h' = Remote("folderProbe", CurrentItemUrl)
               /\ IF ~HasBoardCanvas(r.page)
                  THEN /\ stack' = Append(stack, NewFrame(CurrentItemUrl, Top.folderPath))
                       /\ pc' = "nav"
                  ELSE /\ stack' = stack
                       /\ pc' = "filter"
               /\ UNCHANGED <<dirs, files, fileTypes, itemsDownloaded, run>>
          ELSE Reject("classifyNavigation", r.page)

\* lines 215-217 and checkItemIsFolder (lines 261-268)
CheckItemIsFolder ==
    /\ pc = "item"
    /\ Top.i <= Len(Top.itemUrls)
    /\ ~IsKnownLocally(Top.dirFiles, getItemName(CurrentItemUrl))
    /\ \E r \in goToUrlIfNeeded(page, CurrentItemUrl) :
          IF r.ok
          THEN /\ page' = r.page
               /\ h' = Remote("folderProbe", CurrentItemUrl)
               /\ IF HasFolderContent(r.page)
                  THEN /\ stack' = Append(stack, NewFrame(CurrentItemUrl, Top.folderPath))
                       /\ pc' = "nav"
                  ELSE /\ stack' = stack
                       /\ pc' = "filter"
               /\ UNCHANGED <<dirs, files, fileTypes, itemsDownloaded, run>>
          ELSE Reject("classifyNavigation", r.page)

\* a filter that keeps every requested format
pendingFileTypes_NoFilter(types, dirFiles, itemName) == types

\* lines 221-228: the formats whose file is not in the directory snapshot
pendingFileTypes(types, dirFiles, itemName) ==
    SelectSeq(types, LAMBDA t : FileName(itemName, t) \notin dirFiles)

\* the look-up without `if (!pendingFileTypes.length) continue`
FilterPending_NoEarlyContinue ==
    /\ pc = "filter"
    /\ stack' = SetTop([Top EXCEPT !.pending =
                           pendingFileTypes(fileTypes, Top.dirFiles,
                                            getItemName(CurrentItemUrl))])
    /\ pc' = "canvas"
    /\ UNCHANGED <<page, dirs, files, fileTypes, itemsDownloaded, run, h>>

\* lines 221-232
FilterPending ==
    /\ pc = "filter"
    /\ LET pending == pendingFileTypes(fileTypes, Top.dirFiles,
                                       getItemName(CurrentItemUrl))
       IN  IF Len(pending) = 0
           THEN /\ stack' = SetTop(NextItem(Top))
                /\ pc' = "item"
           ELSE /\ stack' = SetTop([Top EXCEPT !.pending = pending])
                /\ pc' = "canvas"
    /\ UNCHANGED <<page, dirs, files, fileTypes, itemsDownloaded, run, h>>

\* lines 234-239 and checkItemHasCanvas (lines 270-277)
CheckItemHasCanvas ==
    /\ pc = "canvas"
    /\ \E r \in goToUrlIfNeeded(page, CurrentItemUrl) :
          IF r.ok
          THEN /\ page' = r.page
               /\ h' = Remote("canvasProbe", CurrentItemUrl)
               /\ IF HasBoardCanvas(r.page)
                  THEN /\ stack' = SetTop([Top EXCEPT !.k = 1])
                       /\ pc' = "export"
                  ELSE /\ stack' = SetTop(NextItem(Top))
                       /\ pc' = "item"
               /\ UNCHANGED <<dirs, files, fileTypes, itemsDownloaded, run>>
          ELSE Reject("classifyNavigation", r.page)

(***************************************************************************)
(* The try block of downloadUrls (lines 241-252) and the format exporters. *)
(***************************************************************************)
CurrentFileType == Top.pending[Top.k]

\* no handler: the exception leaves downloadUrls and the run rejects
ThrowInTry_Uncaught(pg, hh) ==
    /\ pc' = "aborted"
    /\ page' = pg
    /\ h' = [hh EXCEPT !.failed = TRUE, !.cause = "capture"]
    /\ UNCHANGED <<stack, dirs, files, fileTypes, itemsDownloaded, run>>

\* an exception thrown inside the try block is caught at line 250
ThrowInTry(pg, hh) ==
    /\ pc' = "catch"
    /\ page' = pg
    /\ h' = [hh EXCEPT !.failed = TRUE, !.caught = @ \cup {CurrentItemUrl}]
    /\ UNCHANGED <<stack, dirs, files, fileTypes, itemsDownloaded, run>>

\* `${downloadPath}/${itemName}.${fileType}` (line 244)
FilePath(f) ==
    JoinPath(f.folderPath, FileName(getItemName(f.itemUrls[f.i]), f.pending[f.k]))

\* getItemContent(page, itemUrl, fileType) is entered (line 243)
Exporting == [h EXCEPT !.exported = @ \cup {[url |-> CurrentItemUrl,
                                               fileType |-> CurrentFileType,
                                               path |-> FilePath(Top)]},
                       !.remote = @ \cup {[op |-> "export", url |-> CurrentItemUrl]}]

\* page.$eval('svg', ...) of setBackgroundColor finds its element
HasSvgRoot(pg) == pg.view = "svg"

\* getSvgContent (lines 294-298)
GetSvgContent ==
    /\ pc = "export"
    /\ Top.k <= Len(Top.pending)
    /\ CurrentFileType = SVG
    /\ \E r \in goToUrlIfNeeded(page, SvgUrl(CurrentItemUrl)) :
       \E styled \in {b \in BOOLEAN : b => r.ok /\ HasSvgRoot(r.page)} :
          IF styled
          THEN /\ pc' = "write"
               /\ page' = r.page
               /\ h' = Exporting
               /\ UNCHANGED <<stack, dirs, files, fileTypes, itemsDownloaded, run>>
          ELSE ThrowInTry(r.page, Exporting)

\* the share button is in the DOM of a rendered board
HasShareButton(pg) == pg.view \in {"board", "emptyboard"}

\* page.click on the share button toggles the share/export menu
ToggleMenu(pg) == [pg EXCEPT !.menu = ~@]

\* how a click can find its control: interactive, marked non-interactive
\* (style.pointerEvents === 'none'), or not in the DOM
ControlStates == {"enabled", "disabled", "missing"}

\* the share button can only be found on a page that has one
ShareStates(pg) == IF HasShareButton(pg) THEN ControlStates ELSE {"missing"}

\* page.click(selector) on a control that is in the DOM: a click on the
\* interactive share button toggles the menu, a click on a control with
\* pointer-events: none reaches nothing
Click(pg, control, state) ==
    LET clicked == [pg EXCEPT !.lastClick = [control |-> control,
                                             state |-> state,
                                             clicked |-> TRUE]]
    IN  IF control = "share" /\ state = "enabled"
        THEN ToggleMenu(clicked)
        ELSE clicked

\* the click is issued without looking at the control's style
clickIfEnabled_Always(pg, control, state) ==
    IF state = "missing"
    THEN [ok |-> FALSE,
          page |-> [pg EXCEPT !.lastClick = [control |-> control,
                                             state |-> state,
                                             clicked |-> FALSE]]]
    ELSE [ok |-> TRUE, page |-> Click(pg, control, state)]

\* clickIfEnabled (lines 365-379): $eval throws on a missing element, a
\* control with pointer-events: none throws 'is not enabled', else page.click
clickIfEnabled(pg, control, state) ==
    IF state = "enabled"
    THEN [ok |-> TRUE, page |-> Click(pg, control, state)]
    ELSE [ok |-> FALSE,
          page |-> [pg EXCEPT !.lastClick = [control |-> control,
                                             state |-> state,
                                             clicked |-> FALSE]]]

\* waitForSelector(share); clickIfEnabled(share); waitForSelector(action):
\* the outcomes the environment can produce (lines 303-308, 348-353)
OpenShareMenu(pg) ==
    UNION {LET c == clickIfEnabled(pg, "share", st)
           IN  IF ~c.ok
               THEN {[ok |-> FALSE, page |-> c.page]}
               ELSE \* clicked: the action entry shows only while the menu is open
                    {[ok |-> FALSE, page |-> c.page]}
                    \cup (IF c.page.menu
                          THEN {[ok |-> TRUE, page |-> c.page]}
                          ELSE {})
           : st \in ShareStates(pg)}

\* getImageBlob up to waitForSelector(copyImageButtonSelector) (lines 300-308)
GetImageBlobOpen ==
    /\ pc = "export"
    /\ Top.k <= Len(Top.pending)
    /\ CurrentFileType = PNG
    /\ \E r \in goToUrlIfNeeded(page, CurrentItemUrl) :
          IF r.ok
          THEN \E o \in OpenShareMenu(r.page) :
                  IF o.ok
                  THEN /\ pc' = "png_copy"
                       /\ page' = o.page
                       /\ h' = Exporting
                       /\ UNCHANGED <<stack, dirs, files, fileTypes,
                                      itemsDownloaded, run>>
                  ELSE ThrowInTry(o.page, Exporting)
          ELSE ThrowInTry(r.page, Exporting)

\* clickAndWaitForImageBlob (lines 319-340)
ClickAndWaitForImageBlob ==
    /\ pc = "png_copy"
    /\ \E st \in ControlStates :
          LET c == clickIfEnabled(page, "copy", st)
          IN  IF ~c.ok
              THEN \* clickIfEnabled rejects: reject(err) (lines 336-339)
                   ThrowInTry(c.page, h)
              ELSE \/ \* the blob response is ok: resolve(response.buffer())
                      /\ pc' = "png_close"
                      /\ page' = c.page
                      /\ UNCHANGED <<stack, dirs, files, fileTypes,
                                     itemsDownloaded, run, h>>
                   \/ \* the blob response is not ok: reject()
                      ThrowInTry(c.page, h)
                   \/ \* no blob response ever arrives: the promise never settles
                      /\ pc' = "hung"
                      /\ page' = c.page
                      /\ UNCHANGED <<stack, dirs, files, fileTypes,
                                     itemsDownloaded, run, h>>

\* getImageBlob: clickIfEnabled(share) once more, return (lines 315-316)
GetImageBlobClose ==
    /\ pc = "png_close"
    /\ \E st \in ShareStates(page) :
          LET c == clickIfEnabled(page, "share", st)
          IN  IF c.ok
              THEN /\ pc' = "write"
                   /\ page' = c.page
                   /\ UNCHANGED <<stack, dirs, files, fileTypes,
                                  itemsDownloaded, run, h>>
              ELSE ThrowInTry(c.page, h)

\* getPdfStream up to waitForSelector(printButtonSelector) (lines 342-353)
GetPdfStreamOpen ==
    /\ pc = "export"
    /\ Top.k <= Len(Top.pending)
    /\ CurrentFileType = PDF
    /\ \E r \in goToUrlIfNeeded(page, CurrentItemUrl) :
          IF r.ok
          THEN \E o \in OpenShareMenu(r.page) :
                  IF o.ok
                  THEN /\ pc' = "pdf_print"
                       /\ page' = o.page
                       /\ h' = Exporting
                       /\ UNCHANGED <<stack, dirs, files, fileTypes,
                                      itemsDownloaded, run>>
                  ELSE ThrowInTry(o.page, Exporting)
          ELSE ThrowInTry(r.page, Exporting)

\* page.setContent(frameContent): the URL stays, the content is the print frame's
SetPrintContent(pg) == [pg EXCEPT !.view = "print", !.menu = FALSE]

\* getPdfStream: print, take the frame's content, createPDFStream (lines 354-362)
GetPdfStreamPrint ==
    /\ pc = "pdf_print"
    /\ \E st \in ControlStates :
          LET c == clickIfEnabled(page, "print", st)
          IN  IF c.ok
              THEN \/ /\ pc' = "write"
                      /\ page' = SetPrintContent(c.page)
                      /\ UNCHANGED <<stack, dirs, files, fileTypes,
                                     itemsDownloaded, run, h>>
                   \/ \* no iframe appears
                      ThrowInTry(c.page, h)
              ELSE ThrowInTry(c.page, h)

\* writeFile(filePath, itemContent) (lines 244-247)
WriteFile ==
    /\ pc = "write"
    /\ \/ /\ files' = files \cup {FilePath(Top)}
          /\ h' = [h EXCEPT !.writes = @ (+) SetToBag({FilePath(Top)}),
                            !.produced = @ \cup {CurrentItemUrl}]
          /\ stack' = SetTop([Top EXCEPT !.k = @ + 1])
          /\ pc' = "export"
          /\ UNCHANGED <<page, dirs, fileTypes, itemsDownloaded, run>>
       \/ /\ ThrowInTry(page, h)
          /\ UNCHANGED files

\* an increment per written file
Increment_PerFile(n, pending) == n + Len(pending)

\* how far the counter moves once the format loop has completed (line 249)
Increment(n, pending) == n + 1

\* the format loop completed without a throw: itemsDownloaded++ (line 249)
ExportDone ==
    /\ pc = "export"
    /\ Top.k > Len(Top.pending)
    /\ itemsDownloaded' = Increment(itemsDownloaded, Top.pending)
    /\ h' = [h EXCEPT !.counted = @ (+) SetToBag({CurrentItemUrl})]
    /\ stack' = SetTop(NextItem(Top))
    /\ pc' = "item"
    /\ UNCHANGED <<page, dirs, files, fileTypes, run>>

\* after a caught failure the same item is taken up again
Catch_Retry ==
    /\ pc = "catch"
    /\ stack' = SetTop([Top EXCEPT !.pending = << >>, !.k = 0])
    /\ pc' = "filter"
    /\ UNCHANGED <<page, dirs, files, fileTypes, itemsDownloaded, run, h>>

\* catch { console.log('Item is empty') } (lines 250-252)
Catch ==
    /\ pc = "catch"
    /\ stack' = SetTop(NextItem(Top))
    /\ pc' = "item"
    /\ UNCHANGED <<page, dirs, files, fileTypes, itemsDownloaded, run, h>>

(***************************************************************************)
(* The process and its successive runs.                                    *)
(***************************************************************************)
Ended == {"done", "aborted", "killed", "authfail"}

\* the process is interrupted from outside, between two whole-file writes;
\* its activations and its browser are gone with it
Kill ==
    /\ pc \notin Ended
    /\ pc' = "killed"
    /\ stack' = << >>
    /\ page' = BlankPage
    /\ UNCHANGED <<dirs, files, fileTypes, itemsDownloaded, run, h>>

\* the same command is run again: a new process, the same file store
Restart ==
    /\ pc \in Ended
    /\ run < MaxRuns
    /\ run' = run + 1
    /\ pc' = "login"
    /\ stack' = << >>
    /\ page' = BlankPage
    /\ itemsDownloaded' = 0
    /\ fileTypes' \in FileTypeChoices
    /\ h' = [FreshHistory(pc, fileTypes) EXCEPT
                !.prevClean = (pc = "done" /\ ~h.failed)]
    /\ UNCHANGED <<dirs, files>>

Next ==
    \/ LogIn
    \/ NavigateToFolder
    \/ LoadScroll
    \/ LoadAwait
    \/ ListAndCreateDir
    \/ ReadDirFiles
    \/ ReturnFromFolder
    \/ RecurseKnownFolder
    \/ CheckItemIsFolder
    \/ FilterPending
    \/ CheckItemHasCanvas
    \/ GetSvgContent
    \/ GetImageBlobOpen
    \/ ClickAndWaitForImageBlob
    \/ GetImageBlobClose
    \/ GetPdfStreamOpen
    \/ GetPdfStreamPrint
    \/ WriteFile
    \/ ExportDone
    \/ Catch
    \/ Kill
    \/ Restart

Spec == Init /\ [][Next]_vars

(***************************************************************************)
(* The earlier engine variant (index.ts lines 435-755): no look-up of      *)
(* files that exist, no try/catch around the exports, and a folder is      *)
(* told by the title of its /svg view.  logIn, goToUrlIfNeeded,            *)
(* loadAllItems and createDirIfNotExists read as in the current engine.    *)
(***************************************************************************)
\* (await page.title()) === 'Not Found' (lines 676-677)
TitleIsNotFound(pg) == pg.view = "notfound"

\* the page after page.goto(imageBlob) (line 655)
BlobPage(itemUrl) ==
    [url |-> <<"blob:">> \o itemUrl, view |-> "image", loaded |-> 0,
     sync |-> FALSE, menu |-> FALSE, lastClick |-> NoClick]

\* navigateToFolder: getUrls, createDirIfNotExists, downloadUrls is entered
\* (lines 566-571)
EarlierListAndCreateDir ==
    /\ pc = "list"
    /\ \E ok \in BOOLEAN :
          /\ dirs' = createDirIfNotExists(dirs, Top.folderPath, ok)
          /\ h' = [h EXCEPT !.failed = @ \/ ~ok]
    /\ stack' = SetTop([Top EXCEPT !.itemUrls = getUrls(page), !.i = 1,
                                   !.cycles = 0, !.seen = 0])
    /\ pc' = "item"
    /\ UNCHANGED <<page, files, fileTypes, itemsDownloaded, run>>

\* line 629: `return navigateToFolder(...)`, the for-loop is not resumed
EarlierAfterRecursion(f) == [f EXCEPT !.i = Len(f.itemUrls) + 1]

\* downloadUrls and navigateToFolder resolve
EarlierReturnFromFolder ==
    /\ pc = "item"
    /\ Top.i > Len(Top.itemUrls)
    /\ IF Len(stack) = 1
       THEN /\ pc' = "done"
            /\ stack' = << >>
       ELSE /\ pc' = "item"
            /\ stack' = [SubSeq(stack, 1, Len(stack) - 1)
                            EXCEPT ![Len(stack) - 1] = EarlierAfterRecursion(@)]
    /\ UNCHANGED <<page, dirs, files, fileTypes, itemsDownloaded, run, h>>

\* lines 624-630 and checkItemIsFolder (lines 671-678)
EarlierCheckItemIsFolder ==
    /\ pc = "item"
    /\ Top.i <= Len(Top.itemUrls)
    /\ \E r \in goToUrlIfNeeded(page, SvgUrl(CurrentItemUrl)) :
          IF r.ok
          THEN /\ page' = r.page
               /\ h' = Remote("folderProbe", CurrentItemUrl)
               /\ IF TitleIsNotFound(r.page)
                  THEN /\ stack' = Append(stack, NewFrame(CurrentItemUrl, Top.folderPath))
                       /\ pc' = "nav"
                  ELSE /\ stack' = stack
                       /\ pc' = "e_svg"
               /\ UNCHANGED <<dirs, files, fileTypes, itemsDownloaded, run>>
          ELSE Reject("classifyNavigation", r.page)

\* `${downloadPath}/${itemName}.${fileType}` (lines 638, 648, 654)
EarlierFilePath(fileType) ==
    JoinPath(Top.folderPath, FileName(getItemName(CurrentItemUrl), fileType))

\* writeFile resolves, or it rejects and nothing catches the rejection
EarlierWriteFile(fileType, nextPc, pg) ==
    \/ /\ files' = files \cup {EarlierFilePath(fileType)}
       /\ h' = [h EXCEPT !.writes = @ (+) SetToBag({EarlierFilePath(fileType)}),
                         !.produced = @ \cup {CurrentItemUrl}]
       /\ pc' = nextPc
       /\ page' = pg
       /\ UNCHANGED <<stack, dirs, fileTypes, itemsDownloaded, run>>
    \/ Reject("write", pg)

\* lines 637-642: the SVG is the content of the page the folder check left
EarlierDownloadSvg ==
    /\ pc = "e_svg"
    /\ IF SVG \in SeqToSet(fileTypes)
       THEN EarlierWriteFile(SVG, "e_blob", page)
       ELSE /\ pc' = "e_blob"
            /\ UNCHANGED <<stack, page, dirs, files, fileTypes, itemsDownloaded, run, h>>

\* waitForSelector(share); page.click(share); waitForSelector(copy image)
\* (lines 688-694): the click is issued whatever the button's style
EarlierOpenShareMenu(pg) ==
    UNION {IF st = "missing"
           THEN {[ok |-> FALSE, page |-> pg]}
           ELSE LET c == Click(pg, "share", st)
                IN  {[ok |-> FALSE, page |-> c]}
                    \cup (IF c.menu THEN {[ok |-> TRUE, page |-> c]} ELSE {})
           : st \in ShareStates(pg)}

\* lines 644-645, getImageBlob and clickAndWaitForImageBlob (lines 683-718)
EarlierGetImageBlob ==
    /\ pc = "e_blob"
    /\ IF PNG \in SeqToSet(fileTypes) \/ PDF \in SeqToSet(fileTypes)
       THEN \E r \in goToUrlIfNeeded(page, CurrentItemUrl) :
               IF r.ok
               THEN \E o \in EarlierOpenShareMenu(r.page) :
                       IF o.ok
                       THEN \/ \* the blob response is ok
                               /\ pc' = "e_png"
                               /\ page' = o.page
                               /\ h' = Remote("export", CurrentItemUrl)
                               /\ UNCHANGED <<stack, dirs, files, fileTypes,
                                              itemsDownloaded, run>>
                            \/ \* the blob response is not ok: reject()
                               Reject("capture", o.page)
                            \/ \* no blob response: the promise never settles
                               /\ pc' = "hung"
                               /\ page' = o.page
                               /\ UNCHANGED <<stack, dirs, files, fileTypes,
                                              itemsDownloaded, run, h>>
                       ELSE Reject("capture", o.page)
               ELSE Reject("capture", r.page)
       ELSE /\ pc' = "e_done"
            /\ UNCHANGED <<stack, page, dirs, files, fileTypes, itemsDownloaded, run, h>>

\* lines 647-651
EarlierDownloadPng ==
    /\ pc = "e_png"
    /\ IF PNG \in SeqToSet(fileTypes)
       THEN EarlierWriteFile(PNG, "e_pdf", page)
       ELSE /\ pc' = "e_pdf"
            /\ UNCHANGED <<stack, page, dirs, files, fileTypes, itemsDownloaded, run, h>>

\* lines 653-659: the PDF is printed from the blob's own page
EarlierDownloadPdf ==
    /\ pc = "e_pdf"
    /\ IF PDF \in SeqToSet(fileTypes)
       THEN \/ EarlierWriteFile(PDF, "e_done", BlobPage(CurrentItemUrl))
            \/ \* page.goto(imageBlob) rejects
               Reject("capture", ErrorPage)
       ELSE /\ pc' = "e_done"
            /\ UNCHANGED <<stack, page, dirs, files, fileTypes, itemsDownloaded, run, h>>

\* line 662: itemsDownloaded++, and the for-loop takes the next itemUrl
EarlierItemDone ==
    /\ pc = "e_done"
    /\ itemsDownloaded' = itemsDownloaded + 1
    /\ h' = [h EXCEPT !.counted = @ (+) SetToBag({CurrentItemUrl})]
    /\ stack' = SetTop(NextItem(Top))
    /\ pc' = "item"
    /\ UNCHANGED <<page, dirs, files, fileTypes, run>>

NextEarlier ==
    \/ LogIn
    \/ NavigateToFolder
    \/ LoadScroll
    \/ LoadAwait
    \/ EarlierListAndCreateDir
    \/ EarlierReturnFromFolder
    \/ EarlierCheckItemIsFolder
    \/ EarlierDownloadSvg
    \/ EarlierGetImageBlob
    \/ EarlierDownloadPng
    \/ EarlierDownloadPdf
    \/ EarlierItemDone
    \/ Kill
    \/ Restart

SpecEarlier == Init /\ [][NextEarlier]_vars

(***************************************************************************)
(* One run of the current engine with the requested formats in any order   *)
(* (downloadUrls takes any FileType[]), on a store that is empty or holds  *)
(* the directories an earlier export created.                              *)
(***************************************************************************)
AnyOrderChoices ==
    {s \in UNION {[1..n -> FileType] : n \in 1..Cardinality(FileType)} :
        \A j, l \in DOMAIN s : j # l => s[j] # s[l]}

InitAnyOrder ==
    /\ pc = "login"
    /\ stack = << >>
    /\ page = BlankPage
    /\ dirs \in {{RootPath},
                 MkdirRecursive({RootPath},
                                JoinPath(JoinPath(InitDownloadPath,
                                                  getItemName(StartUrl)),
                                         getItemName(ItemUrl("a"))))}
    /\ files = {}
    /\ fileTypes \in AnyOrderChoices
    /\ itemsDownloaded = 0
    /\ run = 1
    /\ h = FreshHistory("none", << >>)

NextAnyOrder ==
    \/ LogIn
    \/ NavigateToFolder
    \/ LoadScroll
    \/ LoadAwait
    \/ ListAndCreateDir
    \/ ReadDirFiles
    \/ ReturnFromFolder
    \/ RecurseKnownFolder
    \/ CheckItemIsFolder
    \/ FilterPending
    \/ CheckItemHasCanvas
    \/ GetSvgContent
    \/ GetImageBlobOpen
    \/ ClickAndWaitForImageBlob
    \/ GetImageBlobClose
    \/ GetPdfStreamOpen
    \/ GetPdfStreamPrint
    \/ WriteFile
    \/ ExportDone
    \/ Catch
    \/ Kill

SpecAnyOrder == InitAnyOrder /\ [][NextAnyOrder]_vars

(***************************************************************************)
(* What a complete export of the remote tree consists of.                  *)
(***************************************************************************)
ItemOf(url) == CHOOSE n \in Items : url = ItemUrl(n)
IsItemUrl(url) == \E n \in Items : url = ItemUrl(n)

ParentOf(n) == CHOOSE q \in Items : n \in SeqToSet(RemoteChildren(q))

\* the local directory that mirrors remote folder n
RECURSIVE LocalDir(_)
LocalDir(n) ==
    IF ItemUrl(n) = StartUrl
    THEN JoinPath(InitDownloadPath, getItemName(ItemUrl(n)))
    ELSE JoinPath(LocalDir(ParentOf(n)), getItemName(ItemUrl(n)))

\* the local directories of the remote folders
LocalDirs == [n \in {m \in Items : RemoteKind(m) = "folder"} |-> LocalDir(n)]

\* the export target of item n (a child of some folder) in each format
Targets ==
    [n \in Items \ {"r"} |->
        [t \in FileType |->
            JoinPath(LocalDir(ParentOf(n)), FileName(getItemName(ItemUrl(n)), t))]]

Target(n, t) == Targets[n][t]

\* the items below folder n
RECURSIVE Descendants(_)
Descendants(n) ==
    LET c == SeqToSet(RemoteChildren(n))
    IN  c \cup UNION {Descendants(m) : m \in c}

Boards == {n \in Descendants("r") : RemoteKind(n) = "board"}
EmptyBoards == {n \in Descendants("r") : RemoteKind(n) = "empty"}

AllTargets(types) == {Target(n, t) : n \in Boards, t \in SeqToSet(types)}

(***************************************************************************)
(* C1  Resume-safety: a target file that exists when the run starts is     *)
(* never handed to a format exporter and never written during the run;     *)
(* only the formats whose file is missing are exported.                    *)
(***************************************************************************)
C1_ResumeSafety ==
    /\ \A e \in h.exported : e.path \notin h.preFiles
    /\ \A f \in h.preFiles : ~BagIn(f, h.writes)

\* x.svg was there before the run, {png, svg} is requested, and the run has
\* written x.png while leaving x.svg alone
C1_Witness ==
    /\ fileTypes = <<PNG, SVG>>
    /\ Target("x", SVG) \in h.preFiles
    /\ Target("x", PNG) \notin h.preFiles
    /\ BagIn(Target("x", PNG), h.writes)
    /\ ~BagIn(Target("x", SVG), h.writes)
    /\ pc = "done"

(***************************************************************************)
(* C2  Retry by re-run: after a run that was interrupted or had failures,  *)
(* a later run with the same formats that completes without any failure    *)
(* ends with every file of every non-empty board present, also for boards  *)
(* in sub-folders whose local directory the earlier run had created.       *)
(***************************************************************************)
C2_RetryByRerun ==
    ( /\ run > 1
      /\ h.prev \in Ended
      /\ ~h.prevClean
      /\ h.prevTypes = fileTypes
      /\ pc = "done"
      /\ ~h.failed )
    => AllTargets(fileTypes) \subseteq files

\* the earlier run was killed after creating a's directory and before any
\* file of z; the re-run completed and wrote z's files
C2_Witness ==
    /\ run > 1
    /\ h.prev = "killed"
    /\ h.prevTypes = fileTypes
    /\ fileTypes = <<PNG, PDF, SVG>>
    /\ LocalDirs["a"] \in h.preDirs
    /\ \A t \in FileType : Target("z", t) \notin h.preFiles
    /\ pc = "done"
    /\ ~h.failed
    /\ \A t \in FileType : BagIn(Target("z", t), h.writes)
    /\ AllTargets(fileTypes) \subseteq files

(***************************************************************************)
(* C3  Completeness: when navigateToFolder has returned from a run in      *)
(* which no remote interaction and no file-store call failed, every        *)
(* non-empty board reachable from the starting folder has its file, for    *)
(* every requested format, in the directory of its parent folder.          *)
(***************************************************************************)
C3_Completeness ==
    (pc = "done" /\ ~h.failed) => AllTargets(fileTypes) \subseteq files

\* a first run from an empty store that completed without failure
C3_Witness ==
    /\ run = 1
    /\ pc = "done"
    /\ ~h.failed
    /\ fileTypes = <<PNG, PDF, SVG>>
    /\ files = AllTargets(fileTypes)
    /\ Cardinality(files) = 6

(***************************************************************************)
(* C4  Idempotence.  As stated: in a run that follows a completed run with *)
(* the same formats against the unchanged remote tree, no format exporter  *)
(* is invoked, no file is written, the only remote interactions are folder *)
(* listing and item classification, and the local tree stays what the      *)
(* first run left.                                                         *)
(***************************************************************************)
ListingOrClassification == {"list", "folderProbe", "canvasProbe"}

SecondRunIsQuiet ==
    /\ h.exported = {}
    /\ h.writes = EmptyBag
    /\ \A e \in h.remote : e.op \in ListingOrClassification
    /\ files = h.preFiles
    /\ dirs = h.preDirs

C4_Original ==
    (run > 1 /\ h.prev = "done" /\ h.prevTypes = fileTypes) => SecondRunIsQuiet

\* C4 as amended: the same, when the first run completed with no failed
\* listing, capture or file-store call
C4_Idempotence ==
    (run > 1 /\ h.prev = "done" /\ h.prevClean /\ h.prevTypes = fileTypes)
    => SecondRunIsQuiet

\* a second run after a clean first one has walked the whole tree again,
\* probing the boards, and has come to its end
C4_Witness ==
    /\ run > 1
    /\ h.prev = "done"
    /\ h.prevClean
    /\ h.prevTypes = fileTypes
    /\ fileTypes = <<PNG, PDF, SVG>>
    /\ pc = "done"
    /\ [op |-> "folderProbe", url |-> ItemUrl("x")] \in h.remote
    /\ [op |-> "canvasProbe", url |-> ItemUrl("e")] \in h.remote
    /\ [op |-> "list", url |-> ItemUrl("a")] \in h.remote
    /\ files = AllTargets(fileTypes)

(***************************************************************************)
(* C5  Empty-item skip: a child that is neither a folder nor shows a       *)
(* canvas is never handed to a format exporter, never gets a file and is   *)
(* never counted; the loop goes on with the next sibling.                  *)
(***************************************************************************)
EmptyUrls == {ItemUrl(n) : n \in EmptyBoards}
EmptyTargets == {Target(n, t) : n \in EmptyBoards, t \in FileType}

AtEmptyItem ==
    /\ pc = "canvas"
    /\ CurrentItemUrl \in EmptyUrls

C5_EmptyItemSkip ==
    /\ [](/\ \A e \in h.exported : e.url \notin EmptyUrls
          /\ h.produced \cap EmptyUrls = {}
          /\ BagToSet(h.counted) \cap EmptyUrls = {}
          /\ EmptyTargets \cap files = {})
    /\ [][(AtEmptyItem /\ pc' \notin {"killed", "aborted"})
            => /\ pc' = "item"
               /\ stack' = SetTop(NextItem(Top))
               /\ UNCHANGED <<files, itemsDownloaded>>]_vars

\* the empty board e has been probed for a canvas and the loop stands at
\* its next sibling x, with nothing exported, written or counted for e
C5_Witness ==
    /\ [op |-> "canvasProbe", url |-> ItemUrl("e")] \in h.remote
    /\ pc = "item"
    /\ Len(stack) = 1
    /\ Top.i <= Len(Top.itemUrls)
    /\ CurrentItemUrl = ItemUrl("x")
    /\ \A e \in h.exported : e.url # ItemUrl("e")
    /\ ~BagIn(ItemUrl("e"), h.counted)

(***************************************************************************)
(* C6  Count semantics: the counter goes up at most once per board per     *)
(* run, by exactly one however many formats were exported for the board,   *)
(* and it never goes down or back to zero during the run.                  *)
(***************************************************************************)
C6_CountSemantics ==
    /\ [](/\ \A u \in BagToSet(h.counted) : CopiesIn(u, h.counted) = 1
          /\ itemsDownloaded = BagCardinality(h.counted))
    /\ [][run' = run => /\ itemsDownloaded' >= itemsDownloaded
                        /\ itemsDownloaded' <= itemsDownloaded + 1]_vars

\* board z was exported in two formats in this run and the counter shows 1
C6_Witness ==
    /\ fileTypes = <<PNG, SVG>>
    /\ BagIn(Target("z", PNG), h.writes)
    /\ BagIn(Target("z", SVG), h.writes)
    /\ BagIn(ItemUrl("z"), h.counted)
    /\ h.produced = {ItemUrl("z")}
    /\ itemsDownloaded = 1

(***************************************************************************)
(* C7  Partial success is counted: when the run has ended, the counter     *)
(* equals the number of boards for which at least one file was written in  *)
(* this run, also when another format of the same board failed.            *)
(***************************************************************************)
C7_PartialSuccessCounted ==
    pc = "done" => itemsDownloaded = Cardinality(h.produced)

(***************************************************************************)
(* C8  Failure containment of format capture: a failure inside a format    *)
(* exporter or in the file write is caught inside downloadUrls; it never   *)
(* makes the run reject, and the loop goes on with the next sibling while  *)
(* the enclosing folders' loops stay as they were.                         *)
(***************************************************************************)
InTryBlock == {"export", "png_copy", "png_close", "pdf_print", "write"}

\* the rejections that arise outside the try block
OutsideTryCauses == {"folderNavigation", "classifyNavigation", "scroll", "readdir"}

C8_CaptureFailureContained ==
    /\ [][(pc \in InTryBlock)
            => (pc' \in (InTryBlock \cup {"catch", "item", "hung", "killed"}))]_vars
    /\ [][(pc = "catch" /\ pc' # "killed")
            => /\ pc' = "item"
               /\ stack' = SetTop(NextItem(Top))]_vars
    /\ [](pc = "aborted" => h.cause \in OutsideTryCauses)

\* the export of z, inside sub-folder a, threw; afterwards the later items
\* of the enclosing folder were processed and the run came to its end
C8_Witness ==
    /\ ItemUrl("z") \in h.caught
    /\ [op |-> "canvasProbe", url |-> ItemUrl("e")] \in h.remote
    /\ ItemUrl("x") \in h.produced
    /\ BagIn(ItemUrl("x"), h.counted)
    /\ pc = "done"

(***************************************************************************)
(* C9  Only an authentication failure halts the run: a navigation failure  *)
(* while classifying an item, a missing scroll container while listing a   *)
(* folder and a failure reading the local directory are contained, so      *)
(* navigateToFolder does not reject because of any of them.                *)
(***************************************************************************)
C9_OnlyAuthHalts ==
    ~(pc = "aborted" /\ h.cause \in {"classifyNavigation", "scroll", "readdir"})

(***************************************************************************)
(* C10  Local skip precedes any remote interaction.  As stated: a child    *)
(* whose every requested format already has its file locally sees no       *)
(* remote interaction at all, neither navigation nor classification probe. *)
(***************************************************************************)
\* the boards all of whose requested files were there when the run started
SatisfiedUrls ==
    {ItemUrl(n) : n \in {m \in Boards :
                           \A t \in SeqToSet(fileTypes) : Target(m, t) \in h.preFiles}}

C10_Original ==
    \A e \in h.remote : e.url \notin SatisfiedUrls

\* C10 as amended: such a child is navigated to and probed for folder
\* content once (checkItemIsFolder runs before the files are looked up);
\* after the look-up nothing remote is done for it: no canvas probe and no
\* exporter
C10_LocalSkip ==
    /\ \A e \in h.remote : e.url \in SatisfiedUrls => e.op = "folderProbe"
    /\ (pc = "filter" => [op |-> "folderProbe", url |-> CurrentItemUrl] \in h.remote)
    /\ (pc \in {"canvas", "catch"} \cup InTryBlock => CurrentItemUrl \notin SatisfiedUrls)

\* x had all its requested files; the run probed it for folder content,
\* skipped it, and ended
C10_Witness ==
    /\ ItemUrl("x") \in SatisfiedUrls
    /\ fileTypes = <<PNG, PDF, SVG>>
    /\ [op |-> "folderProbe", url |-> ItemUrl("x")] \in h.remote
    /\ [op |-> "canvasProbe", url |-> ItemUrl("x")] \notin h.remote
    /\ pc = "done"

(***************************************************************************)
(* C11  The output layout mirrors the remote hierarchy: every directory    *)
(* in the store is the download root (or its parent) or the directory of   *)
(* a remote folder, placed in its parent folder's directory under the      *)
(* folder's local name, and every file is <local name>.<format> of a       *)
(* non-empty board, directly in the directory of the board's parent        *)
(* folder; nothing else is in the store.                                   *)
(***************************************************************************)
C11_LayoutMirrors ==
    /\ dirs \subseteq {RootPath, InitDownloadPath}
                        \cup {LocalDirs[n] : n \in DOMAIN LocalDirs}
    /\ files \subseteq {Target(n, t) : n \in Boards, t \in FileType}
    /\ \A n \in DOMAIN LocalDirs \ {"r"} :
          LocalDirs[n] = JoinPath(LocalDirs[ParentOf(n)], getItemName(ItemUrl(n)))
    /\ LocalDirs["r"] = JoinPath(InitDownloadPath, getItemName(StartUrl))

\* a completed run that created the directory of sub-folder a inside r's and
\* wrote z's file there, next to x's file in r's directory
C11_Witness ==
    /\ pc = "done"
    /\ LocalDirs["a"] \in dirs
    /\ JoinPath(LocalDirs["a"], FileName(<<"z">>, PNG)) \in files
    /\ JoinPath(LocalDirs["r"], FileName(<<"x">>, SVG)) \in files
    /\ JoinPath(LocalDirs["r"], <<"a">>) = LocalDirs["a"]

(***************************************************************************)
(* C12  Pagination termination: when loadAllItems has returned for a       *)
(* folder whose listing takes N pagination rounds, it has performed        *)
(* exactly N scroll/await cycles, and the listing getUrls collects then    *)
(* holds all the folder's children in DOM order.                           *)
(***************************************************************************)
\* the scroll/await rounds the listing of a folder takes: one per batch that
\* a scroll brings in, and the round whose wait finds no response
PaginationRounds(url) ==
    LET c == Len(ChildUrls(url))
    IN  IF c <= PageSize THEN 1 ELSE ((c - 1) \div PageSize) + 1

C12_PaginationTermination ==
    pc = "list" =>
        /\ Top.cycles = PaginationRounds(Top.folderUrl)
        /\ getUrls(page) = ChildUrls(Top.folderUrl)

(***************************************************************************)
(* C13  No indefinite hang in format capture: an attempt to export the     *)
(* raster image always ends, with the blob's bytes or with a failure; the  *)
(* run is never left waiting for a blob response that does not arrive.     *)
(***************************************************************************)
C13_NoIndefiniteHang == pc # "hung"

(***************************************************************************)
(* C14  Authentication gates traversal: until logIn has resolved, and in   *)
(* a run whose logIn threw, no folder is navigated to or listed, no item   *)
(* is classified or exported, no directory is created and no file is       *)
(* written; a failed logIn ends the run, and the traversal is entered only *)
(* from a logIn that resolved.                                             *)
(***************************************************************************)
TraversalSteps ==
    {"nav", "scroll", "await", "list", "readdir", "item", "filter", "canvas",
     "catch", "hung"} \cup InTryBlock

C14_AuthGatesTraversal ==
    /\ [](pc \in {"login", "authfail"} =>
             /\ stack = << >>
             /\ h.remote = {} /\ h.exported = {} /\ h.writes = EmptyBag
             /\ dirs = h.preDirs /\ files = h.preFiles)
    /\ [](h.cause = "login" => pc = "authfail")
    /\ [][(pc = "authfail") => (pc' = "login" /\ run' = run + 1)]_vars
    /\ [][(pc' \in TraversalSteps /\ pc \notin TraversalSteps)
            => (pc = "login" /\ pc' = "nav" /\ ~h'.failed)]_vars

\* the second run's login failed: what the first run had exported is as it was
C14_Witness ==
    /\ pc = "authfail"
    /\ h.cause = "login"
    /\ run = 2
    /\ h.prev = "done"
    /\ Target("z", PDF) \in files
    /\ files = h.preFiles

(***************************************************************************)
(* C15  A format capture failure skips only that one format: when a run    *)
(* has ended, every requested format of a board whose export threw has     *)
(* either its file in the store or was handed to its exporter in the run.  *)
(***************************************************************************)
C15_FailureSkipsOneFormat ==
    pc = "done" =>
        \A n \in Boards : ItemUrl(n) \in h.caught =>
            \A t \in SeqToSet(fileTypes) :
                \/ Target(n, t) \in files
                \/ [url |-> ItemUrl(n), fileType |-> t, path |-> Target(n, t)]
                       \in h.exported

(***************************************************************************)
(* C16  Sibling continuation and depth-first order: the items in progress  *)
(* are one chain, each activation of navigateToFolder working on the       *)
(* sub-folder its parent's loop stands at, and when a run has ended        *)
(* without any failure every item below the starting folder has been       *)
(* processed, also those listed after a sub-folder.                        *)
(***************************************************************************)
BelowStart == Descendants("r")

Processed(n) == \E e \in h.remote : e.url = ItemUrl(n)

C16_SiblingContinuation ==
    /\ \A j \in 1..(Len(stack) - 1) :
          /\ stack[j].i \in 1..Len(stack[j].itemUrls)
          /\ stack[j].itemUrls[stack[j].i] = stack[j + 1].folderUrl
    /\ (pc = "done" /\ ~h.failed) => \A n \in BelowStart : Processed(n)

(***************************************************************************)
(* C17  The raster-image exporter closes the share/export control          *)
(* whatever the outcome: when getImageBlob has returned (its bytes are     *)
(* about to be written) or has thrown (the catch of downloadUrls is        *)
(* reached), the share/export menu is not open.                            *)
(***************************************************************************)
C17_ControlClosedAfterImage ==
    ( /\ pc \in {"write", "catch"}
      /\ Top.k \in 1..Len(Top.pending)
      /\ CurrentFileType = PNG )
    => ~page.menu

(***************************************************************************)
(* C18  Item classification.  As stated: an item is a Folder if its page   *)
(* has the folder-content marker, otherwise a Folder if the title of its   *)
(* /svg view is "Not Found", otherwise a Document if its page has the      *)
(* canvas marker, otherwise an EmptyDocument; the engine recurses into     *)
(* exactly the Folders and exports exactly the Documents.                  *)
(***************************************************************************)
\* the probe order of the statement, applied to what the service renders
StatedClass(url) ==
    IF Render(url) = "folder" THEN "Folder"
    ELSE IF Render(SvgUrl(url)) = "notfound" THEN "Folder"
    ELSE IF Render(url) = "board" THEN "Document"
    ELSE "EmptyDocument"

\* the two probes of the current engine, in its order
EngineClass(url) ==
    IF Render(url) = "folder" THEN "Folder"
    ELSE IF Render(url) = "board" THEN "Document"
    ELSE "EmptyDocument"

\* the engine has taken the current item for something else than a folder
TakenForNoFolder == pc \in {"filter", "canvas", "catch", "hung"} \cup InTryBlock

\* the engine has taken the current item for a document
TakenForDocument == pc \in {"catch", "hung"} \cup InTryBlock

C18_Original ==
    /\ \A j \in 2..Len(stack) : StatedClass(stack[j].folderUrl) = "Folder"
    /\ TakenForNoFolder => StatedClass(CurrentItemUrl) # "Folder"
    /\ TakenForDocument => StatedClass(CurrentItemUrl) = "Document"

\* C18 as amended: the current engine takes an item for a Folder when the
\* folder-content marker is on its page (or an entry of its name is in the
\* local directory, which only a folder's is), otherwise for a Document when
\* the canvas marker is there, otherwise for an EmptyDocument; the /svg
\* title is not probed.  It recurses into exactly the items it takes for
\* Folders and exports exactly those it takes for Documents.
C18_Classification ==
    /\ [](\A j \in 2..Len(stack) : EngineClass(stack[j].folderUrl) = "Folder")
    /\ [](TakenForNoFolder => EngineClass(CurrentItemUrl) # "Folder")
    /\ [](TakenForDocument => EngineClass(CurrentItemUrl) = "Document")
    /\ [][(pc = "item" /\ pc' = "filter")
            => (EngineClass(CurrentItemUrl) # "Folder")]_vars
    /\ [][(pc = "canvas" /\ pc' = "item")
            => (EngineClass(CurrentItemUrl) = "EmptyDocument")]_vars
    /\ [](\A e \in h.remote :
             /\ e.op = "list" => EngineClass(e.url) = "Folder"
             /\ e.op = "export" => EngineClass(e.url) = "Document")

\* a completed run: the folder a was listed, e (no folder content, /svg "Not
\* Found", no canvas) was probed for a canvas and neither listed nor
\* exported, the boards were exported
C18_Witness ==
    /\ pc = "done"
    /\ ~h.failed
    /\ StatedClass(ItemUrl("e")) = "Folder"
    /\ EngineClass(ItemUrl("e")) = "EmptyDocument"
    /\ [op |-> "list", url |-> ItemUrl("a")] \in h.remote
    /\ [op |-> "canvasProbe", url |-> ItemUrl("e")] \in h.remote
    /\ [op |-> "list", url |-> ItemUrl("e")] \notin h.remote
    /\ [op |-> "export", url |-> ItemUrl("e")] \notin h.remote
    /\ [op |-> "export", url |-> ItemUrl("x")] \in h.remote
    /\ [op |-> "export", url |-> ItemUrl("z")] \in h.remote

C20_MkdirFailureContained ==
    ~( /\ pc = "aborted"
       /\ h.cause = "readdir"
       /\ Top.folderPath \notin dirs )

(***************************************************************************)
(* C21  Disabled controls are never clicked: in the current engine a       *)
(* click is issued on the share/export control, the copy-image entry or    *)
(* the print entry only when the control was found interactive; when it    *)
(* is marked non-interactive the export attempt does not go on and ends    *)
(* in the catch of downloadUrls, as it does when the control is missing.   *)
(***************************************************************************)
C21_DisabledNeverClicked ==
    /\ [](page.lastClick.clicked => page.lastClick.state = "enabled")
    /\ [](pc \in {"png_copy", "png_close", "pdf_print", "write"}
             => page.lastClick.state \in {"none", "enabled"})
    /\ [][(/\ page'.lastClick # page.lastClick
           /\ page'.lastClick.state \in {"disabled", "missing"})
            => (/\ pc' = "catch"
                /\ CurrentItemUrl \in h'.caught
                /\ files' = files)]_vars

\* the copy-image entry of z was found with pointer-events: none: no click
\* was issued and the export of z ended in the catch
C21_Witness ==
    /\ pc = "catch"
    /\ CurrentItemUrl = ItemUrl("z")
    /\ page.lastClick = [control |-> "copy", state |-> "disabled", clicked |-> FALSE]
    /\ ItemUrl("z") \in h.caught

(***************************************************************************)
(* C22  Probes and exporters act on the intended item's own surface.  As   *)
(* stated: whenever a probe or an exporter is about to use the page for a  *)
(* URL, or is using it, the page shows what loading that URL renders, for  *)
(* every order of the requested formats.                                   *)
(***************************************************************************)
\* the URL the operation at hand works on; << >> where none does
IntendedUrl ==
    CASE pc \in {"nav", "scroll", "await", "list"} -> Top.folderUrl
      [] pc = "item" /\ Top.i <= Len(Top.itemUrls)
                     /\ ~IsKnownLocally(Top.dirFiles, getItemName(CurrentItemUrl))
                                                   -> CurrentItemUrl
      [] pc \in {"canvas", "png_copy", "png_close", "pdf_print"}
                                                   -> CurrentItemUrl
      [] pc = "export" /\ Top.k <= Len(Top.pending) ->
             IF CurrentFileType = SVG THEN SvgUrl(CurrentItemUrl)
                                      ELSE CurrentItemUrl
      [] OTHER -> << >>

\* goToUrlIfNeeded will not navigate, or the operation is under way: the
\* page has to show what the intended URL renders
SurfaceIntended ==
    page.url = IntendedUrl => page.view = Render(IntendedUrl)

\* the operation under way is on the page of its item
OnItsPage ==
    pc \in {"scroll", "await", "list", "png_copy", "png_close", "pdf_print"}
        => page.url = IntendedUrl

C23_NoResponseMissed ==
    pc \in {"scroll", "await", "list"} =>
        page.loaded <= PageSize * (1 + Top.seen)

====
